---- MODULE Spec2Model ----
(***************************************************************************)
(* A model of the chat server (server.py) and the chat client's clock and  *)
(* sync coordinator (client.py).                                           *)
(*                                                                         *)
(* Server: one handler thread per accepted connection; the thread of       *)
(* connection c is named c.  The registry `clients` and its lock           *)
(* `clients_lock` are the only shared state.  A socket send is modelled as *)
(* two steps (the call begins, the call returns or raises) so that states  *)
(* "inside sendall" exist.                                                 *)
(*                                                                         *)
(* Client: the Tk main thread runs process_ui_queue and sync_with_server   *)
(* as callbacks, so they never overlap each other; the receiver thread     *)
(* puts decoded records on ui_queue concurrently.                          *)
(*                                                                         *)
(* Specifications: Spec is the server, OrderSpec the server with a history *)
(* of the chat records delivered on each connection, ClientSpec the        *)
(* client, ClientFair the client under fair scheduling.                    *)
(***************************************************************************)
EXTENDS Integers, Sequences, FiniteSets, TLC

\* ------------------------------------------------------------------ bounds
MaxConns == 2
MaxTime == 1

Conns == 1..MaxConns
NoConn == 0

\* ------------------------------------------------------------ JSON values
\* A JSON value as a tagged record, so that values of different JSON types
\* can be compared.  JAbsent stands for "the key is not in the object".
JStr(s) == [k |-> "str", n |-> 0, s |-> s]
JNum(i) == [k |-> "num", n |-> i, s |-> ""]
JNull == [k |-> "null", n |-> 0, s |-> ""]
JAbsent == [k |-> "absent", n |-> 0, s |-> ""]

\* A JSON object with the keys the programs look at.
Obj(ty, fr, tx, cts, sts, stime) ==
    [type |-> ty, from |-> fr, text |-> tx, client_ts |-> cts,
     server_ts |-> sts, server_time |-> stime]

\* dict.get(key, default): the default when the key is absent.
Get(v, default) == IF v = JAbsent THEN default ELSE v

\* ------------------------------------------------------- server: records
\* One line read from a connection's file object.
\*   kind "eof"     the stream ended (the for loop ends)
\*   kind "enc"     the bytes are not UTF-8 (the read raises UnicodeDecodeError)
\*   kind "blank"   only whitespace
\*   kind "badjson" json.loads raises JSONDecodeError
\*   kind "value"   valid JSON that is not an object (a number, a list, ...)
\*   kind "object"  a JSON object, in obj
NoObj == Obj(JAbsent, JAbsent, JAbsent, JAbsent, JAbsent, JAbsent)
Line(kind, obj) == [kind |-> kind, obj |-> obj]
NoLine == Line("none", NoObj)

ChatIn(fr, tx, cts) == Obj(JStr("chat"), fr, tx, cts, JAbsent, JAbsent)

\* Chat records: a full one, one without client_ts, one without from and
\* text; the client stamps differ from each other and from the server's time.
ChatLines ==
    { Line("object", ChatIn(JStr("u"), JStr("hi"), JNum(9))),
      Line("object", ChatIn(JStr("u"), JStr("hi"), JAbsent)),
      Line("object", ChatIn(JAbsent, JAbsent, JNum(3))) }

SyncLine == Line("object", Obj(JStr("sync_request"), JAbsent, JAbsent, JAbsent, JAbsent, JAbsent))

\* Records the handler is meant to drop.
MalformedLines ==
    { Line("enc", NoObj), Line("badjson", NoObj), Line("value", NoObj),
      Line("object", NoObj),
      Line("object", Obj(JStr("bogus"), JAbsent, JStr("hi"), JAbsent, JAbsent, JAbsent)) }

Lines == ChatLines \cup {SyncLine} \cup MalformedLines
            \cup {Line("eof", NoObj), Line("blank", NoObj)}

\* ------------------------------------------------------------- variables
VARIABLES
    clients,        \* server.py: the registry, a set of connections
    clients_lock,   \* the thread holding the lock, NoConn when free
    now,            \* the server's time.time()
    pc,             \* position of each handler thread
    line,           \* the record the handler's current loop iteration read
    out,            \* the msg_obj the handler is broadcasting or sending
    closed,         \* conn.close() was called on the connection
    bst,            \* position inside broadcast: "out", "iter", "send"
    todo,           \* broadcast: connections the for loop has still to visit
    snap,           \* broadcast: the registry when the lock was taken
    cur,            \* broadcast: the connection of the current iteration
    dead,           \* broadcast: the local list `dead`
    sends,          \* send_json calls begun per connection since the last read
    failed          \* connections on which a send_json call raised and whose
                    \* handler has not yet taken them out of the registry

svars == <<clients, clients_lock, now, pc, line, out, closed, bst, todo, snap,
           cur, dead, sends, failed>>

NoSends == [c \in Conns |-> 0]

\* History of deliveries, kept by OrderSpec only: delivered[c][t] is the
\* server_ts of the last chat record read by handler t whose send on
\* connection c returned, -1 when there is none.
VARIABLE delivered

NoneDelivered == [c \in Conns |-> [t \in Conns |-> -1]]

\* -------------------------------------------------------- server: records
\* The string f"{addr} joined" / f"{addr} left": the text and the address in it.
AddrText(c, what) == [k |-> "str", n |-> c, s |-> what]

InfoMsg(c, what) ==
    Obj(JStr("info"), JAbsent, AddrText(c, what), JAbsent, JAbsent, JAbsent)

\* Mutant of ChatOut: the stamp is taken from the client's field.
ChatOutClientStamp(msg, ts) ==
    Obj(JStr("chat"), Get(msg.from, JStr("?")), Get(msg.text, JStr("")),
        Get(msg.client_ts, JNull), Get(msg.client_ts, JNull), JAbsent)

\* Mutant of ChatOut: the client's stamp is used when the record has one.
ChatOutPreferClient(msg, ts) ==
    Obj(JStr("chat"), Get(msg.from, JStr("?")), Get(msg.text, JStr("")),
        Get(msg.client_ts, JNull),
        IF msg.client_ts.k = "num" THEN msg.client_ts ELSE JNum(ts), JAbsent)

\* handle_client 46-53: the record built from a received chat record.
ChatOut(msg, ts) ==
    Obj(JStr("chat"), Get(msg.from, JStr("?")), Get(msg.text, JStr("")),
        Get(msg.client_ts, JNull), JNum(ts), JAbsent)

SyncReply(ts) ==
    Obj(JStr("sync_reply"), JAbsent, JAbsent, JAbsent, JAbsent, JNum(ts))

\* Mutant of ExcludeArg: a chat is not sent back to its sender.
ExcludeSender(t, site) == IF site = "chat" THEN t ELSE NoConn

\* The exclude argument of each broadcast call: None at all three call sites
\* (34 and 70 pass exclude=None, 54 leaves the default).
ExcludeArg(t, site) == NoConn

\* Mutant of Discard: the dead connections stay in the registry.
DiscardNone(reg, d) == reg

\* broadcast 26-27: for d in dead: clients.discard(d).
Discard(reg, d) == reg \ d

\* Mutant of Remove: the handler leaves its connection in the registry.
RemoveNothing(reg, c) == reg

\* handle_client 64-65: if conn in clients: clients.remove(conn).
Remove(reg, c) == IF c \in reg THEN reg \ {c} ELSE reg

\* Mutant of ReplyTarget: the reply goes to another connection.
ReplyTargetOther(t) == IF t = 1 THEN MaxConns ELSE 1

\* handle_client 56: the connection the sync_reply is sent on, conn.
ReplyTarget(t) == t

\* Mutant of AfterBroadcast: the handler reads on after its leave notice.
AfterBroadcastRead(site) == "read"

\* Where the handler continues when broadcast returns: the read loop after
\* the join notice (35) and after a chat (54), the end after the leave
\* notice (70).
AfterBroadcast(site) == IF site = "leave" THEN "closed" ELSE "read"

\* ---------------------------------------------------------- server: Init
SInit ==
    /\ clients = {}
    /\ clients_lock = NoConn
    /\ now = 0
    /\ pc = [c \in Conns |-> "new"]
    /\ line = [c \in Conns |-> NoLine]
    /\ out = [c \in Conns |-> NoObj]
    /\ closed = [c \in Conns |-> FALSE]
    /\ bst = [c \in Conns |-> "out"]
    /\ todo = [c \in Conns |-> {}]
    /\ snap = [c \in Conns |-> {}]
    /\ cur = [c \in Conns |-> NoConn]
    /\ dead = [c \in Conns |-> {}]
    /\ sends = [c \in Conns |-> NoSends]
    /\ failed = {}

\* The positions at which a handler is calling broadcast.
BroadcastSites == {"join", "chat", "leave"}

\* time.time() advances.
Tick ==
    /\ now < MaxTime
    /\ now' = now + 1
    /\ UNCHANGED <<clients, clients_lock, pc, line, out, closed, bst, todo,
                   snap, cur, dead, sends, failed>>

\* main 81-84 and handle_client 30-34: s.accept() returns connection c and its
\* handler thread is started; the thread takes the lock, adds the connection,
\* releases the lock, and builds the join notice it is about to broadcast.
\* Connections are numbered in the order in which they are accepted.
Accept(c) ==
    /\ pc[c] = "new"
    /\ IF c = 1 THEN TRUE ELSE pc[c - 1] # "new"
    /\ clients_lock = NoConn
    /\ clients' = clients \cup {c}
    /\ out' = [out EXCEPT ![c] = InfoMsg(c, "joined")]
    /\ pc' = [pc EXCEPT ![c] = "join"]
    /\ UNCHANGED <<clients_lock, now, line, closed, bst, todo, snap, cur,
                   dead, sends, failed>>

\* broadcast 17-18: the lock is taken, dead = [], the for loop starts over
\* the registry.
BroadcastLock(t) ==
    /\ pc[t] \in BroadcastSites
    /\ bst[t] = "out"
    /\ clients_lock = NoConn
    /\ clients_lock' = t
    /\ bst' = [bst EXCEPT ![t] = "iter"]
    /\ todo' = [todo EXCEPT ![t] = clients]
    /\ snap' = [snap EXCEPT ![t] = clients]
    /\ dead' = [dead EXCEPT ![t] = {}]
    /\ UNCHANGED <<clients, now, pc, line, out, closed, cur, sends, failed>>

\* broadcast 19-23: the next connection of the loop, in any order; it is
\* skipped when it is the excluded one, else send_json is called on it.
BroadcastNext(t) ==
    /\ bst[t] = "iter"
    /\ \E c \in todo[t] :
        /\ todo' = [todo EXCEPT ![t] = @ \ {c}]
        /\ IF c = ExcludeArg(t, pc[t])
             THEN UNCHANGED <<bst, cur, sends>>
             ELSE /\ bst' = [bst EXCEPT ![t] = "send"]
                  /\ cur' = [cur EXCEPT ![t] = c]
                  /\ sends' = [sends EXCEPT ![t][c] = @ + 1]
    /\ UNCHANGED <<clients, clients_lock, now, pc, line, out, closed, snap,
                   dead, failed>>

\* broadcast 23-25: send_json returns, or raises and the connection is
\* appended to dead.
BroadcastSent(t) ==
    /\ bst[t] = "send"
    /\ \E ok \in BOOLEAN :
        IF ok
          THEN UNCHANGED <<dead, failed>>
          ELSE /\ dead' = [dead EXCEPT ![t] = @ \cup {cur[t]}]
               /\ failed' = failed \cup {cur[t]}
    /\ bst' = [bst EXCEPT ![t] = "iter"]
    /\ UNCHANGED <<clients, clients_lock, now, pc, line, out, closed, todo,
                   snap, cur, sends>>

\* broadcast 26-27: the loop is over; the dead connections are discarded, the
\* lock is released and broadcast returns.
BroadcastReturn(t) ==
    /\ bst[t] = "iter"
    /\ todo[t] = {}
    /\ clients' = Discard(clients, dead[t])
    /\ clients_lock' = NoConn
    /\ bst' = [bst EXCEPT ![t] = "out"]
    /\ pc' = [pc EXCEPT ![t] = AfterBroadcast(pc[t])]
    /\ line' = [line EXCEPT ![t] = NoLine]
    /\ out' = [out EXCEPT ![t] = NoObj]
    /\ snap' = [snap EXCEPT ![t] = {}]
    /\ cur' = [cur EXCEPT ![t] = NoConn]
    /\ dead' = [dead EXCEPT ![t] = {}]
    /\ sends' = [sends EXCEPT ![t] = NoSends]
    /\ UNCHANGED <<now, closed, todo, failed>>

\* What one iteration of the read loop (35-59) does with a line:
\*   "leave"  the loop ends or an exception leaves the try block
\*   "skip"   continue, or no branch taken
\*   "chat", "sync"
Dispatch(l) ==
    CASE l.kind \in {"eof", "enc"} -> "leave"
      [] l.kind \in {"blank", "badjson"} -> "skip"
      [] l.kind = "value" -> "leave"    \* msg.get raises AttributeError
      [] l.kind = "object" /\ l.obj.type = JStr("chat") -> "chat"
      [] l.kind = "object" /\ l.obj.type = JStr("sync_request") -> "sync"
      [] OTHER -> "skip"

\* handle_client 35-59: the handler reads one line and acts on it.  For a
\* sync_request it is then inside send_json(conn, sync_reply), at "reply".
ReadLine(t) ==
    /\ pc[t] = "read"
    /\ \E l \in Lines :
        LET d == Dispatch(l) IN
        CASE d = "leave" ->
               /\ pc' = [pc EXCEPT ![t] = "remove"]
               /\ line' = [line EXCEPT ![t] = l]
               /\ UNCHANGED <<out, sends>>
          [] d = "skip" ->
               UNCHANGED <<pc, line, out, sends>>
          [] d = "chat" ->
               /\ pc' = [pc EXCEPT ![t] = "chat"]
               /\ line' = [line EXCEPT ![t] = l]
               /\ out' = [out EXCEPT ![t] = ChatOut(l.obj, now)]
               /\ UNCHANGED sends
          [] d = "sync" ->
               /\ pc' = [pc EXCEPT ![t] = "reply"]
               /\ line' = [line EXCEPT ![t] = l]
               /\ out' = [out EXCEPT ![t] = SyncReply(now)]
               /\ sends' = [sends EXCEPT ![t][ReplyTarget(t)] = @ + 1]
    /\ UNCHANGED <<clients, clients_lock, now, closed, bst, todo, snap, cur,
                   dead, failed>>

\* The sync_reply send returns, or raises and the handler leaves (60-61).
ReplySent(t) ==
    /\ pc[t] = "reply"
    /\ \E ok \in BOOLEAN :
        IF ok
          THEN /\ pc' = [pc EXCEPT ![t] = "read"]
               /\ line' = [line EXCEPT ![t] = NoLine]
               /\ sends' = [sends EXCEPT ![t] = NoSends]
               /\ UNCHANGED failed
          ELSE /\ pc' = [pc EXCEPT ![t] = "remove"]
               /\ failed' = failed \cup {t}
               /\ UNCHANGED <<line, sends>>
    /\ out' = [out EXCEPT ![t] = NoObj]
    /\ UNCHANGED <<clients, clients_lock, now, closed, bst, todo, snap, cur,
                   dead>>

\* handle_client 63-65: the handler takes itself out of the registry.
Unregister(t) ==
    /\ pc[t] = "remove"
    /\ clients_lock = NoConn
    /\ clients' = Remove(clients, t)
    /\ pc' = [pc EXCEPT ![t] = "close"]
    /\ line' = [line EXCEPT ![t] = NoLine]
    /\ sends' = [sends EXCEPT ![t] = NoSends]
    /\ failed' = failed \ {t}
    /\ UNCHANGED <<clients_lock, now, out, closed, bst, todo, snap, cur, dead>>

\* handle_client 66-70: conn.close(), then the leave notice is built and
\* broadcast is called.
Close(t) ==
    /\ pc[t] = "close"
    /\ closed' = [closed EXCEPT ![t] = TRUE]
    /\ out' = [out EXCEPT ![t] = InfoMsg(t, "left")]
    /\ pc' = [pc EXCEPT ![t] = "leave"]
    /\ UNCHANGED <<clients, clients_lock, now, line, bst, todo, snap, cur,
                   dead, sends, failed>>

\* ================================================================= client
\* Times on the client are whole ticks.  rtt / 2.0 is a half when rtt is
\* odd, so the model keeps twice the offset (offset2) and every formula about
\* it is stated in doubled units; float rounding is not modelled.

\* Clock.__init__ 21-22: start_real = time.time(), start_local = start_real.
start_real == 100
start_local == start_real

\* The server's clock when the client starts; replies carry a time from here on.
ServerEpoch == 205

\* client.py 13
DRIFT_PER_SEC == 0

\* client.py 189: deadline = time.time() + 1.0
SyncDeadline == 1

\* Clock.now_local 26-30, at real time r.
NowLocal(r) == start_local + (r - start_real) * (1 + DRIFT_PER_SEC)

\* Clock.now_synced 32-34, doubled.
NowSynced2(r, off2) == 2 * NowLocal(r) + off2

\* Clock.apply_cristian 39-40, doubled: 2 * (server_time + rtt / 2 - t_recv).
EstOffset2(ts, server_time, tr) ==
    LET rtt == tr - ts IN 2 * server_time + rtt - 2 * tr

\* Mutant of NewOffset2: the estimate is added to the offset.
AddOffset2(old2, est2) == old2 + est2

\* Clock.apply_cristian 41-42: self.offset = est_offset.
NewOffset2(old2, est2) == est2

\* JSON true / false: a Python bool, which is an int (True == 1).
JBool(b) == [k |-> "bool", n |-> IF b THEN 1 ELSE 0, s |-> ""]

\* sync_with_server 204: isinstance(server_time, (int, float)).
IsNumber(v) == v.k \in {"num", "bool"}

\* The records the receiver puts on the queue: the k-th chat record of the
\* connection, a sync_reply, and the disconnect notice (an info record).
ChatMsg(k) == Obj(JStr("chat"), JStr("u"), JStr("hi"), JNull, JNum(k), JAbsent)
ReplyMsg(v) == Obj(JStr("sync_reply"), JAbsent, JAbsent, JAbsent, JAbsent, v)
Disconnected == Obj(JStr("info"), JAbsent, JStr("[system] disconnected"),
                    JAbsent, JAbsent, JAbsent)

VARIABLES
    real,           \* the client's time.time()
    offset2,        \* twice clock.offset
    ui_queue,       \* the inbound queue
    running,        \* self.running
    rpc,            \* receiver thread: "loop", "done"
    nrecv,          \* chat and info records the receiver has read so far
    inflight,       \* sync_requests sent whose reply the receiver has not read
    spc,            \* main thread: "idle", "exit", and in sync_with_server
                    \* "send", "wait", "put", "done"
    scheduled,      \* an after(5000, sync_with_server) is outstanding
    rounds,         \* sync rounds started
    t_send,         \* sync_with_server locals, 0 outside the callback
    t_recv,
    deadline,
    reply,          \* the matched reply, NoObj while reply is None
    outcome,        \* what the round reports, "none" outside the callback
    offset0,        \* twice clock.offset when the round began
    shown,          \* records process_ui_queue has displayed, in order
    msg,            \* sync_with_server: the record the wait loop took off the
                    \* queue and has not yet put back, NoObj otherwise
    nreq,           \* sync_requests sent
    nrep            \* sync_replies taken off the queue, by either consumer

cvars == <<real, offset2, ui_queue, running, rpc, nrecv, inflight, spc,
           scheduled, rounds, t_send, t_recv, deadline, reply, outcome,
           offset0, shown, msg, nreq, nrep>>

CInit ==
    /\ real = start_real
    /\ offset2 = 0
    /\ ui_queue = <<>>
    /\ running = TRUE
    /\ rpc = "loop"
    /\ nrecv = 0
    /\ inflight = 0
    /\ spc = "idle"
    /\ scheduled = TRUE
    /\ rounds = 0
    /\ t_send = 0
    /\ t_recv = 0
    /\ deadline = 0
    /\ reply = NoObj
    /\ outcome = "none"
    /\ offset0 = 0
    /\ shown = <<>>
    /\ msg = NoObj
    /\ nreq = 0
    /\ nrep = 0

\* --------------------------------------------------------- client bounds
MaxLocal == 2       \* ticks of the client's clock
MaxRounds == 2      \* sync rounds
MaxMsgs == 2        \* chat and info records the receiver reads

\* server_time values a reply can carry: a time of the server's clock, no
\* server_time at all, or a JSON boolean.
ReplyValues == {JNum(ServerEpoch), JAbsent, JBool(TRUE)}

\* The client's time.time() advances; past the bound it advances only up to
\* the deadline a round is waiting for.
CTick ==
    /\ \/ real < start_real + MaxLocal
       \/ spc \in {"wait", "put"} /\ real < deadline
    /\ real' = real + 1
    /\ UNCHANGED <<offset2, ui_queue, running, rpc, nrecv, inflight, spc,
                   scheduled, rounds, t_send, t_recv, deadline, reply,
                   outcome, offset0, shown, msg, nreq, nrep>>

\* receiver_loop 144-151: the next chat record is read and put on the queue.
ReceiveMsg ==
    /\ rpc = "loop"
    /\ running
    /\ nrecv < MaxMsgs
    /\ ui_queue' = Append(ui_queue, ChatMsg(nrecv + 1))
    /\ nrecv' = nrecv + 1
    /\ UNCHANGED <<real, offset2, running, rpc, inflight, spc, scheduled,
                   rounds, t_send, t_recv, deadline, reply, outcome, offset0,
                   shown, msg, nreq, nrep>>

\* receiver_loop 144-151: the reply to an outstanding sync_request is read
\* and put on the queue.
ReceiveReply ==
    /\ rpc = "loop"
    /\ running
    /\ inflight > 0
    /\ \E v \in ReplyValues : ui_queue' = Append(ui_queue, ReplyMsg(v))
    /\ inflight' = inflight - 1
    /\ UNCHANGED <<real, offset2, running, rpc, nrecv, spc, scheduled, rounds,
                   t_send, t_recv, deadline, reply, outcome, offset0, shown,
                   msg, nreq, nrep>>

\* receiver_loop 145-146, 152-155: the stream ends, a read fails, or a line
\* arrives after close(); the disconnect notice is put on the queue.
ReceiveEnd ==
    /\ rpc = "loop"
    /\ rpc' = "done"
    /\ ui_queue' = Append(ui_queue, Disconnected)
    /\ UNCHANGED <<real, offset2, running, nrecv, inflight, spc, scheduled,
                   rounds, t_send, t_recv, deadline, reply, outcome, offset0,
                   shown, msg, nreq, nrep>>

\* process_ui_queue 164-173: what the consumer displays for a record.
Displayed(q) == SelectSeq(q, LAMBDA m : m.type \in {JStr("chat"), JStr("info")})

\* The sync_reply records of a queue.
Replies(q) == SelectSeq(q, LAMBDA m : m.type = JStr("sync_reply"))

\* process_ui_queue 157-174: the main thread, when it is in no other
\* callback, empties the queue and displays the chat and info records; a
\* sync_reply matches no branch and is dropped.
process_ui_queue ==
    /\ spc = "idle"
    /\ ui_queue # <<>>
    /\ shown' = shown \o Displayed(ui_queue)
    /\ nrep' = nrep + Len(Replies(ui_queue))
    /\ ui_queue' = <<>>
    /\ UNCHANGED <<real, offset2, running, rpc, nrecv, inflight, spc,
                   scheduled, rounds, t_send, t_recv, deadline, reply,
                   outcome, offset0, msg, nreq>>

\* sync_with_server 183-188: the scheduled round starts: t_send is taken and
\* send_json is called.  When the client is not running the callback returns
\* and schedules nothing.
SyncStart ==
    /\ spc = "idle"
    /\ scheduled
    /\ rounds < MaxRounds
    /\ scheduled' = FALSE
    /\ IF ~running
         THEN UNCHANGED <<spc, rounds, t_send, t_recv, reply, outcome, offset0>>
         ELSE /\ spc' = "send"
              /\ rounds' = rounds + 1
              /\ t_send' = NowLocal(real)
              /\ offset0' = offset2
              /\ UNCHANGED <<t_recv, reply, outcome>>
    /\ UNCHANGED <<real, offset2, ui_queue, running, rpc, nrecv, inflight,
                   deadline, shown, msg, nreq, nrep>>

\* sync_with_server 188-190, 211-212: send_json returns and the deadline is
\* set, or it raises and the error is reported.
SyncSent ==
    /\ spc = "send"
    /\ \E ok \in BOOLEAN :
        IF ok
          THEN /\ inflight' = inflight + 1
               /\ nreq' = nreq + 1
               /\ deadline' = real + SyncDeadline
               /\ spc' = "wait"
               /\ UNCHANGED outcome
          ELSE /\ outcome' = "sync error"
               /\ spc' = "done"
               /\ UNCHANGED <<inflight, nreq, deadline>>
    /\ UNCHANGED <<real, offset2, ui_queue, running, rpc, nrecv, scheduled,
                   rounds, t_send, t_recv, reply, offset0, shown, msg, nrep>>

\* sync_with_server 191-198, 201-208: before the deadline a record is taken
\* from the queue.  A sync_reply ends the wait: t_recv is taken, a numeric
\* server_time is applied and the outcome is reported.  Any other record is
\* held in msg, to be put back.
SyncGet ==
    /\ spc = "wait"
    /\ real < deadline
    /\ ui_queue # <<>>
    /\ ui_queue' = Tail(ui_queue)
    /\ LET m == Head(ui_queue) IN
       IF m.type = JStr("sync_reply")
         THEN /\ t_recv' = NowLocal(real)
              /\ reply' = m
              /\ nrep' = nrep + 1
              /\ IF IsNumber(m.server_time)
                   THEN /\ offset2' = NewOffset2(offset2,
                               EstOffset2(t_send, m.server_time.n, NowLocal(real)))
                        /\ outcome' = "clock adjusted"
                   ELSE /\ outcome' = "invalid server time"
                        /\ UNCHANGED offset2
              /\ spc' = "done"
              /\ UNCHANGED msg
         ELSE /\ msg' = m
              /\ spc' = "put"
              /\ UNCHANGED <<offset2, t_recv, reply, outcome, nrep>>
    /\ UNCHANGED <<real, running, rpc, nrecv, inflight, scheduled, rounds,
                   t_send, deadline, offset0, shown, nreq>>

\* Mutant of Requeue: the record is not put back.
RequeueDrop(q, m) == q

\* Mutant of Requeue: the record is put back at the front of the queue.
RequeueFront(q, m) == <<m>> \o q

\* sync_with_server 200: self.ui_queue.put(msg), at the tail of the queue.
Requeue(q, m) == Append(q, m)

\* sync_with_server 199-200: the record that is not a sync_reply is put back
\* and the loop goes on.
SyncPut ==
    /\ spc = "put"
    /\ ui_queue' = Requeue(ui_queue, msg)
    /\ msg' = NoObj
    /\ spc' = "wait"
    /\ UNCHANGED <<real, offset2, running, rpc, nrecv, inflight, scheduled,
                   rounds, t_send, t_recv, deadline, reply, outcome, offset0,
                   shown, nreq, nrep>>

\* Mutant of TimeoutOutcome: a round without a reply reports an adjustment.
TimeoutAdjusted == "clock adjusted"

\* sync_with_server 210: the report of a round whose reply is None.
TimeoutOutcome == "no reply"

\* sync_with_server 191, 209-210: the deadline has passed with reply still
\* None.
SyncTimeout ==
    /\ spc = "wait"
    /\ real >= deadline
    /\ outcome' = TimeoutOutcome
    /\ spc' = "done"
    /\ UNCHANGED <<real, offset2, ui_queue, running, rpc, nrecv, inflight,
                   scheduled, rounds, t_send, t_recv, deadline, reply, offset0,
                   shown, msg, nreq, nrep>>

\* Mutant of Reschedule: only a round that adjusted the clock is followed by
\* another.
RescheduleOnSuccess(o) == o = "clock adjusted"

\* sync_with_server 213-214: the finally block calls after(5000, ...) whatever
\* the round reported.
Reschedule(o) == TRUE

\* sync_with_server 213-214: the finally block schedules the next round and
\* the callback returns.
SyncReturn ==
    /\ spc = "done"
    /\ scheduled' = Reschedule(outcome)
    /\ spc' = "idle"
    /\ t_send' = 0
    /\ t_recv' = 0
    /\ deadline' = 0
    /\ reply' = NoObj
    /\ outcome' = "none"
    /\ offset0' = 0
    /\ UNCHANGED <<real, offset2, ui_queue, running, rpc, nrecv, inflight,
                   rounds, shown, msg, nreq, nrep>>

\* main 223-225: the window is closed: close() clears running, and
\* root.destroy() ends the main loop, so no callback runs afterwards.
OnClose ==
    /\ spc = "idle"
    /\ running
    /\ running' = FALSE
    /\ spc' = "exit"
    /\ UNCHANGED <<real, offset2, ui_queue, rpc, nrecv, inflight, scheduled,
                   rounds, t_send, t_recv, deadline, reply, outcome, offset0,
                   shown, msg, nreq, nrep>>

\* ------------------------------------------------------- specifications
vars == <<svars, cvars, delivered>>

Init == SInit /\ CInit /\ delivered = NoneDelivered

\* The server.
Next ==
    \/ Tick /\ UNCHANGED <<cvars, delivered>>
    \/ \E c \in Conns : Accept(c) /\ UNCHANGED <<cvars, delivered>>
    \/ \E t \in Conns : BroadcastLock(t) /\ UNCHANGED <<cvars, delivered>>
    \/ \E t \in Conns : BroadcastNext(t) /\ UNCHANGED <<cvars, delivered>>
    \/ \E t \in Conns : BroadcastSent(t) /\ UNCHANGED <<cvars, delivered>>
    \/ \E t \in Conns : BroadcastReturn(t) /\ UNCHANGED <<cvars, delivered>>
    \/ \E t \in Conns : ReadLine(t) /\ UNCHANGED <<cvars, delivered>>
    \/ \E t \in Conns : ReplySent(t) /\ UNCHANGED <<cvars, delivered>>
    \/ \E t \in Conns : Unregister(t) /\ UNCHANGED <<cvars, delivered>>
    \/ \E t \in Conns : Close(t) /\ UNCHANGED <<cvars, delivered>>

Spec == Init /\ [][Next]_vars

\* A step in which handler t's send of a chat record returns normally.
DeliveryStep(t) ==
    /\ pc[t] = "chat" /\ bst[t] = "send" /\ bst'[t] = "iter"
    /\ dead'[t] = dead[t]

\* The history after a step of BroadcastSent(t).
Deliver(t) ==
    delivered' = IF DeliveryStep(t)
                   THEN [delivered EXCEPT ![cur[t]][t] = out[t].server_ts.n]
                   ELSE delivered

\* The history after Unregister(t): connection t gets no further record and
\* handler t sends no further chat, so what concerns them is dropped.
Forget(t) ==
    delivered' = [c \in Conns |-> [u \in Conns |->
                    IF c = t \/ u = t THEN -1 ELSE delivered[c][u]]]

\* The server, with the history of deliveries.
ONext ==
    \/ Tick /\ UNCHANGED <<cvars, delivered>>
    \/ \E c \in Conns : Accept(c) /\ UNCHANGED <<cvars, delivered>>
    \/ \E t \in Conns : BroadcastLock(t) /\ UNCHANGED <<cvars, delivered>>
    \/ \E t \in Conns : BroadcastNext(t) /\ UNCHANGED <<cvars, delivered>>
    \/ \E t \in Conns : BroadcastSent(t) /\ Deliver(t) /\ UNCHANGED cvars
    \/ \E t \in Conns : BroadcastReturn(t) /\ UNCHANGED <<cvars, delivered>>
    \/ \E t \in Conns : ReadLine(t) /\ UNCHANGED <<cvars, delivered>>
    \/ \E t \in Conns : ReplySent(t) /\ UNCHANGED <<cvars, delivered>>
    \/ \E t \in Conns : Unregister(t) /\ Forget(t) /\ UNCHANGED cvars
    \/ \E t \in Conns : Close(t) /\ UNCHANGED <<cvars, delivered>>

OrderSpec == Init /\ [][ONext]_vars

\* The client.
CNext ==
    \/ CTick /\ UNCHANGED <<svars, delivered>>
    \/ ReceiveMsg /\ UNCHANGED <<svars, delivered>>
    \/ ReceiveReply /\ UNCHANGED <<svars, delivered>>
    \/ ReceiveEnd /\ UNCHANGED <<svars, delivered>>
    \/ process_ui_queue /\ UNCHANGED <<svars, delivered>>
    \/ SyncStart /\ UNCHANGED <<svars, delivered>>
    \/ SyncSent /\ UNCHANGED <<svars, delivered>>
    \/ SyncGet /\ UNCHANGED <<svars, delivered>>
    \/ SyncPut /\ UNCHANGED <<svars, delivered>>
    \/ SyncTimeout /\ UNCHANGED <<svars, delivered>>
    \/ SyncReturn /\ UNCHANGED <<svars, delivered>>
    \/ OnClose /\ UNCHANGED <<svars, delivered>>

ClientSpec == Init /\ [][CNext]_vars

\* The steps of the main thread inside sync_with_server.
SyncStep == SyncSent \/ SyncGet \/ SyncPut \/ SyncTimeout \/ SyncReturn

\* The client under the scheduling the program relies on: the clock
\* advances, a thread that can take a step takes one, and a timer that is due
\* fires.
ClientFair ==
    /\ ClientSpec
    /\ WF_vars(CTick /\ UNCHANGED <<svars, delivered>>)
    /\ WF_vars(SyncStep /\ UNCHANGED <<svars, delivered>>)
    /\ WF_vars(SyncStart /\ UNCHANGED <<svars, delivered>>)
    /\ WF_vars(process_ui_queue /\ UNCHANGED <<svars, delivered>>)

\* ================================================================= claims

\* Every handler is idle: none holds or waits for the lock, none is inside a
\* send; each is not yet accepted, blocked in its read loop, or finished.
Idle ==
    /\ clients_lock = NoConn
    /\ \A t \in Conns : pc[t] \in {"new", "read", "closed"}

\* C1, as stated: once every handler is idle the registry contains exactly
\* the connections whose handler is still in its read loop.
C1_RegistryExactlyLive ==
    Idle => clients = {c \in Conns : pc[c] = "read"}

\* C1, amended: once every handler is idle the registry contains exactly the
\* connections whose handler is still in its read loop and on which no send
\* has failed; no connection whose handler has finished is in it.
C1_RegistryLiveUnlessFailed ==
    Idle => /\ clients = {c \in Conns : pc[c] = "read" /\ c \notin failed}
            /\ \A c \in Conns : pc[c] = "closed" => c \notin clients

\* C1 witness: all handlers idle, one connection still registered, another
\* dropped from the registry by a failed send while its handler reads on.
C1_Witness ==
    /\ Idle
    /\ \E c, d \in Conns :
         /\ pc[c] = "read" /\ c \in failed /\ c \notin clients
         /\ pc[d] = "read" /\ d \in clients

\* C2: during a broadcast pass every connection whose send failed is still in
\* the registry; when the pass is finished a send has been attempted exactly
\* once on every connection of the registry, and has returned normally on
\* all but the failed ones; when broadcast returns the failed connections
\* are out of the registry and nothing else has changed in it.
C2_FailureDoesNotAbort ==
    /\ [](\A t \in Conns :
            bst[t] # "out" =>
              /\ clients_lock = t
              /\ clients = snap[t]
              /\ dead[t] \subseteq clients
              /\ (bst[t] = "iter" /\ todo[t] = {} =>
                    \A c \in snap[t] : sends[t][c] = 1))
    /\ [][\A t \in Conns :
            (bst[t] = "iter" /\ bst'[t] = "out") =>
              /\ todo[t] = {}
              /\ clients' = snap[t] \ dead[t]
              /\ clients_lock' = NoConn]_vars

\* C2 witness: a pass over at least two connections is finished, the send to
\* exactly one of them failed.
C2_Witness ==
    \E t \in Conns :
      /\ bst[t] = "iter" /\ todo[t] = {}
      /\ Cardinality(snap[t]) >= 2
      /\ Cardinality(dead[t]) = 1
      /\ \E c \in snap[t] \ dead[t] : sends[t][c] = 1

\* C3: when the pass that broadcasts a chat record is finished, exactly one
\* send of the record, which is a chat record with a numeric server_ts, has
\* been made on every connection that was in the registry when the pass
\* began, the sender's included, and none on any other connection.
C3_ChatToAll ==
    \A t \in Conns :
      pc[t] = "chat" =>
        /\ out[t].type = JStr("chat") /\ out[t].server_ts.k = "num"
        /\ (bst[t] = "send" => cur[t] \in snap[t])
        /\ (bst[t] = "iter" /\ todo[t] = {} =>
              \A c \in Conns : sends[t][c] = IF c \in snap[t] THEN 1 ELSE 0)

\* C3 witness: the pass of a chat is finished and the record went to its
\* sender and to another connection.
C3_Witness ==
    \E t \in Conns :
      /\ pc[t] = "chat" /\ bst[t] = "iter" /\ todo[t] = {}
      /\ t \in snap[t] /\ sends[t][t] = 1
      /\ \E c \in snap[t] : c # t /\ sends[t][c] = 1

C5_ReplyToRequesterOnly ==
    \A t \in Conns :
      /\ (pc[t] = "reply" =>
            /\ line[t] = SyncLine
            /\ out[t].type = JStr("sync_reply")
            /\ bst[t] = "out"
            /\ \A c \in Conns : sends[t][c] = IF c = t THEN 1 ELSE 0)
      /\ (line[t] = SyncLine => pc[t] \in {"reply", "remove"} /\ bst[t] = "out")
      /\ (bst[t] # "out" => out[t].type # JStr("sync_reply"))

\* C5 witness: a handler is sending its sync_reply while another connection
\* is registered.
C5_Witness ==
    \E t \in Conns :
      /\ pc[t] = "reply" /\ sends[t][t] = 1
      /\ \E c \in clients : c # t

\* C6, as stated: the join notice of a connection is never sent on that
\* connection.
C6_JoinNotToJoiner ==
    \A t \in Conns : ~(pc[t] = "join" /\ bst[t] = "send" /\ cur[t] = t)

\* C7: a leaving handler removes its connection from the registry, then
\* closes it, then broadcasts the leave notice, then ends; the leave notice
\* goes only to registered connections and never to the leaving one; a handler
\* that has ended never moves, takes the lock or sends again.
C7_LeaveOrder ==
    /\ [](\A t \in Conns :
            /\ (pc[t] \in {"close", "leave", "closed"} => t \notin clients)
            /\ (closed[t] <=> pc[t] \in {"leave", "closed"})
            /\ (pc[t] = "leave" => out[t] = InfoMsg(t, "left"))
            /\ (pc[t] = "leave" /\ bst[t] = "send" =>
                  cur[t] # t /\ cur[t] \in clients)
            /\ (pc[t] = "closed" => bst[t] = "out" /\ clients_lock # t))
    /\ [][\A t \in Conns :
            /\ (pc[t] = "remove" /\ pc'[t] # "remove" =>
                  pc'[t] = "close" /\ t \notin clients')
            /\ (pc[t] = "close" /\ pc'[t] # "close" =>
                  pc'[t] = "leave" /\ closed'[t] /\ clients' = clients)
            /\ (pc[t] = "leave" /\ pc'[t] # "leave" => pc'[t] = "closed")
            /\ (pc[t] = "closed" =>
                  /\ pc'[t] = "closed"
                  /\ sends'[t] = sends[t]
                  /\ bst'[t] = "out"
                  /\ clients_lock' # t)]_vars

\* C7 witness: a handler that was registered is sending its leave notice to
\* a remaining connection.
C7_Witness ==
    \E t \in Conns :
      /\ pc[t] = "leave" /\ bst[t] = "send"
      /\ cur[t] \in clients

\* C8, as stated: a handler never leaves its read loop because of a
\* malformed record.
C8_MalformedKeepsReading ==
    \A t \in Conns : pc[t] = "remove" => line[t] \notin MalformedLines

\* C9: at the end of a round that adjusted the clock, twice the offset is
\* 2 * server_time + (t_recv - t_send) - 2 * t_recv, whatever the offset was
\* before; with t_send = 100, server_time = 205, t_recv = 102 the offset
\* is 104 and now_synced() at local time 102 is 206.
C9_OffsetReplaced ==
    (spc = "done" /\ outcome = "clock adjusted") =>
      /\ offset2 = 2 * reply.server_time.n + (t_recv - t_send) - 2 * t_recv
      /\ (t_send = 100 /\ reply.server_time = JNum(205) /\ t_recv = 102 =>
            offset2 = 2 * 104 /\ NowSynced2(102, offset2) = 2 * 206)

\* C9 witness: the round of the example, begun with an offset that was not 0.
C9_Witness ==
    /\ spc = "done" /\ outcome = "clock adjusted"
    /\ t_send = 100 /\ reply.server_time = JNum(205) /\ t_recv = 102
    /\ offset0 # 0
    /\ offset2 = 208

\* C10: at the end of a round whose wait ended with no sync_reply taken, the
\* offset is the one the round began with and the round reports "no reply".
C10_TimeoutKeepsOffset ==
    (spc = "done" /\ reply = NoObj /\ deadline # 0) =>
      offset2 = offset0 /\ outcome = "no reply"

\* C10 witness: a round timed out, with records on the queue, after an
\* earlier round had adjusted the clock.
C10_Witness ==
    /\ spc = "done" /\ outcome = "no reply"
    /\ offset0 # 0 /\ offset2 = offset0
    /\ ui_queue # <<>>

\* C11, as stated: a round that matched a sync_reply whose server_time is
\* missing or is not a JSON number reports "invalid server time" and leaves
\* the offset as it was when the round began.
C11_InvalidDiscarded ==
    (spc = "done" /\ reply # NoObj /\ reply.server_time.k # "num") =>
      outcome = "invalid server time" /\ offset2 = offset0

\* The records the receiver has put on the queue for the general consumer:
\* the chat records read so far and, once the receiver has ended, the
\* disconnect notice.
Put ==
    { ChatMsg(k) : k \in 1..nrecv } \cup
      (IF rpc = "done" THEN {Disconnected} ELSE {})

\* C12, as stated: the consumer displays the records in the order in which
\* the receiver put them on the queue: the chat records by their number, the
\* disconnect notice last.
C12_ConsumerOrder ==
    \A i, j \in 1..Len(shown) :
      i < j =>
        /\ shown[i] # Disconnected
        /\ (shown[j] # Disconnected =>
              shown[i].server_ts.n < shown[j].server_ts.n)

C14_ReplyOfOwnRound ==
    (spc = "done" /\ reply # NoObj) => nrep = nreq

\* C18: a round that has started ends; when it ends the callback returns with
\* the next round scheduled, whatever the round reported; the scheduled round
\* starts unless the client is closed first; once the client is not running
\* nothing is scheduled and no round starts.
C18_RoundsGoOn ==
    /\ [](spc \in {"send", "wait", "put"} => <>(spc = "done"))
    /\ [](spc = "done" => <>(spc = "idle" /\ scheduled))
    /\ [][spc = "done" /\ spc' # "done" => spc' = "idle" /\ scheduled']_vars
    /\ [](scheduled /\ spc = "idle" /\ rounds < MaxRounds =>
            <>(spc = "send" \/ ~running))
    /\ [][~running' => spc' = "exit" /\ (scheduled' => scheduled)]_vars

\* C18 witness: a round that failed (no reply) has been followed by another
\* round, which is waiting for its reply.
C18_Witness ==
    /\ spc = "wait" /\ rounds = 2
    /\ offset2 = 0 /\ nrep = 0 /\ nreq = 2

\* C15: a chat record read at server time s is stamped server_ts = s,
\* whatever its client_ts, and keeps the stamp while it is broadcast; so when
\* a handler reads a chat record while another handler's record, read
\* earlier, is still being broadcast, the earlier stamp is not larger than
\* the later one, and no stamp lies ahead of the server clock.
C15_StampFromServerClock ==
    /\ [](\A t \in Conns :
            pc[t] = "chat" =>
              out[t].server_ts.k = "num" /\ out[t].server_ts.n <= now)
    /\ [][\A t, u \in Conns :
            (t # u /\ pc[t] = "chat" /\ pc[u] = "read" /\ pc'[u] = "chat") =>
              /\ out'[u].server_ts = JNum(now)
              /\ out'[t].server_ts = out[t].server_ts
              /\ out'[t].server_ts.n <= out'[u].server_ts.n]_vars

\* C15 witness: two handlers hold chat records read at server times 0 and 1
\* whose client stamps, 9 and 3, are in the opposite order.
C15_Witness ==
    \E t, u \in Conns :
      /\ pc[t] = "chat" /\ pc[u] = "chat"
      /\ out[t].server_ts = JNum(0) /\ out[t].client_ts = JNum(9)
      /\ out[u].server_ts = JNum(1) /\ out[u].client_ts = JNum(3)

\* Thread t is inside a socket send on connection c.
Sending(t, c) ==
    \/ bst[t] = "send" /\ cur[t] = c
    \/ pc[t] = "reply" /\ c = ReplyTarget(t)

\* C16, as stated: while a thread is inside a send, a handler that has a
\* record to broadcast can start its pass, and a new connection can be
\* registered.
C16_StalledSendBlocksNobody ==
    \A t \in Conns :
      (\E c \in Conns : Sending(t, c)) =>
        /\ \A u \in Conns \ {t} :
             (pc[u] \in BroadcastSites /\ bst[u] = "out") =>
               ENABLED BroadcastLock(u)
        /\ \A c \in Conns :
             (pc[c] = "new" /\ (IF c = 1 THEN TRUE ELSE pc[c - 1] # "new")) =>
               ENABLED Accept(c)

\* C17, as stated: a thread that is inside a socket send does not hold
\* clients_lock.
C17_NoSendUnderLock ==
    \A t, c \in Conns : Sending(t, c) => clients_lock # t

\* C19, as stated: no two threads are inside a send on the same connection.
C19_OneWriterPerConnection ==
    \A t, u, c \in Conns : (Sending(t, c) /\ Sending(u, c)) => t = u

\* C20, as stated: when the send of a chat record on a connection returns,
\* no chat record with a larger server_ts has been delivered on that
\* connection before.
C20_DeliveredInStampOrder ==
    [][\A t, u \in Conns :
         DeliveryStep(t) => delivered[cur[t]][u] <= out[t].server_ts.n]_vars

\* C20, amended: when the send of a chat record on a connection returns, no
\* chat record read by the same handler with a larger server_ts has been
\* delivered on that connection before.
C20_SenderOrder ==
    [][\A t \in Conns :
         DeliveryStep(t) => delivered[cur[t]][t] <= out[t].server_ts.n]_vars

\* C20 witness: a handler whose chat record stamped 0 was delivered on a
\* connection is sending it the next one, stamped 1, after another handler's
\* record was delivered there too.
C20_Witness ==
    \E t, u, c \in Conns :
      /\ t # u
      /\ pc[t] = "chat" /\ bst[t] = "send" /\ cur[t] = c
      /\ delivered[c][t] = 0 /\ out[t].server_ts = JNum(1)
      /\ delivered[c][u] >= 0

====
